---- MODULE Spec2Model ----
(***************************************************************************)
(* Model of nirutyodjai/Central-MCP-Server:                                *)
(*   - the pydantic data model of the beam-analysis backend                *)
(*     (engineering-webapp/backend/models/beam_models.py),                 *)
(*   - the /api/analyze endpoint (engineering-webapp/backend/app/main.py), *)
(*   - the configuration client (client/python/mcp_client.py).             *)
(*                                                                         *)
(* Four specifications share the module.  Spec constructs the entities of  *)
(* the data model from inputs drawn by Init; SpecApi runs the analyze      *)
(* handler step by step; SpecClient runs MCPClient.get_all over time       *)
(* against an environment, a local file and a remote server drawn by its   *)
(* Init; SpecSecret runs get_secret and get_all from the same Init.        *)
(***************************************************************************)
EXTENDS Integers, Sequences, FiniteSets, TLC

VARIABLES
    raw,        \* the input handed to a model constructor
    entity,     \* the object the constructor produced (NoEntity before / on failure)
    outcome,    \* "pending" | "accepted" | "rejected"
    callerObj,  \* the SupportReactions instance the caller holds (NoObj when a dict was passed)
    assigned,   \* number of attribute assignments made on the constructed entity
    \* ---- analyze_beam (main.py) ----
    apiPc,              \* where the handler stands
    request,            \* the AnalysisRequest being handled (its id; 0: none)
    validation_result,  \* what validate_analysis_request returned
    exc,                \* the exception in flight (NoExc: none)
    calls,              \* the service calls made for this request, in order
    response,           \* the HTTP response sent (NoResponse: none yet)
    served,             \* requests answered so far
    \* ---- MCPClient (mcp_client.py) and what it reads ----
    environ,    \* os.environ: the names that are set
    fileC,      \* C:\central-mcp-config.json: "absent" | "unreadable" | "empty" | "config"
    fileW,      \* <workspace>/central-mcp-config.json: likewise
    url,        \* self.url (NoUrl: not configured)
    token,      \* self.token (NoToken: none)
    cache,      \* self._cache: [data, ts]
    now,        \* int(time.time())
    lastCall    \* the last get_all call: what it consulted and what it gave back

dataVars == <<raw, entity, outcome, callerObj, assigned>>
apiVars == <<apiPc, request, validation_result, exc, calls, response, served>>
clientVars == <<environ, fileC, fileW, url, token, cache, now, lastCall>>

vars == <<raw, entity, outcome, callerObj, assigned,
          apiPc, request, validation_result, exc, calls, response, served,
          environ, fileC, fileW, url, token, cache, now, lastCall>>

(***************************************************************************)
(* Bounds of the model.                                                    *)
(***************************************************************************)
MaxPos == 2          \* positions and beam lengths range over 0..MaxPos (and -1)
MaxSupports == 3     \* longest supports list handed to SupportConditions
MaxLoads == 2        \* longest loads list handed to LoadConditions
MaxAssign == 1       \* attribute assignments followed per constructed entity
MaxRequests == 2     \* requests the analyze endpoint is followed through
MaxErrors == 2       \* longest error list a ValidationResult carries
MaxTime == 3         \* the clock runs over 0..MaxTime
CacheTtl == 2        \* the cache_ttl the client is constructed with

(***************************************************************************)
(* Enums (beam_models.py 7-34).  "bogus" stands for any string that is not *)
(* a member of the enum.                                                   *)
(***************************************************************************)
BeamType == {"simply-supported", "cantilever", "fixed-fixed", "fixed-pinned", "continuous"}
SupportType == {"pin", "roller", "fixed"}
LoadType == {"point", "distributed", "moment"}
CrossSectionType == {"rectangular", "circular", "i-beam", "custom"}
Bogus == "bogus"

(***************************************************************************)
(* Values of an Optional[float] field as the caller supplies it: the key   *)
(* left out, an explicit null, or a number.                                *)
(***************************************************************************)
Omitted == [set |-> "omitted", val |-> 0]
Null == [set |-> "null", val |-> 0]
Num(n) == [set |-> "num", val |-> n]
None == Null   \* the Python value None, as stored in a field

RequiredTwo == 2     \* supports a simply-supported / fixed-fixed beam requires
MinItems == 1        \* min_items of the supports and loads lists

NoEntity == [kind |-> "none"]
NoObj == [alias |-> "none"]

(***************************************************************************)
(* pydantic field validation, as far as the models use it.  A field the    *)
(* caller leaves out takes its default and its validators do not run (no   *)
(* validator is declared always=True); a supplied value, None included, is *)
(* checked against the Field constraints and then handed to the class      *)
(* validator of that field.  A field that fails is left out of `values`,   *)
(* so values.get(name) is None for it.                                     *)
(***************************************************************************)
Unset == "unset"   \* what values.get('type') yields when `type` failed validation

\* CrossSection.validate_width: raises iff rectangular and v is None
validate_width(v, type) == type = "rectangular" /\ v = None

\* CrossSection.validate_height: raises iff rectangular and v is None
validate_height(v, type) == type = "rectangular" /\ v = None

\* CrossSection.validate_diameter: raises iff circular and v is None
validate_diameter(v, type) == type = "circular" /\ v = None

\* The value an Optional[float] = Field(None, gt=0) field stores.
OptStored(r) == IF r.set = "num" THEN r ELSE None

\* An Optional[float] = Field(None, gt=0) field with a class validator:
\* TRUE iff the field contributes a validation error.  raisesOnNone,
\* raisesOnValue: whether the validator raises for None, for the number.
OptFieldError(r, raisesOnNone, raisesOnValue) ==
    CASE r.set = "omitted" -> FALSE
      [] r.set = "null" -> raisesOnNone
      [] OTHER -> IF r.val > 0 THEN raisesOnValue ELSE TRUE

\* CrossSection(**r): the set of fields that fail validation.
CrossSectionErrors(r) ==
    LET type == IF r.type \in CrossSectionType THEN r.type ELSE Unset IN
    (IF r.type \in CrossSectionType THEN {} ELSE {"type"})
    \cup (IF OptFieldError(r.width, validate_width(None, type), validate_width(r.width, type))
          THEN {"width"} ELSE {})
    \cup (IF OptFieldError(r.height, validate_height(None, type), validate_height(r.height, type))
          THEN {"height"} ELSE {})
    \cup (IF OptFieldError(r.diameter, validate_diameter(None, type),
                           validate_diameter(r.diameter, type))
          THEN {"diameter"} ELSE {})

CrossSection(r) ==
    [kind |-> "CrossSection", type |-> r.type, width |-> OptStored(r.width),
     height |-> OptStored(r.height), diameter |-> OptStored(r.diameter)]

(***************************************************************************)
(* Support and SupportReactions.                                           *)
(***************************************************************************)
SupportReactions(v, h, m) == [vertical |-> v, horizontal |-> h, moment |-> m]

\* validate_reactions with the roller branch forgetting `horizontal`.
validate_reactions_roller_keeps_horizontal(v, support_type) ==
    CASE support_type = "pin" -> SupportReactions(TRUE, TRUE, FALSE)
      [] support_type = "roller" -> SupportReactions(TRUE, v.horizontal, FALSE)
      [] support_type = "fixed" -> SupportReactions(TRUE, TRUE, TRUE)
      [] OTHER -> v

\* Support.validate_reactions: the flags of v after the validator ran.
validate_reactions(v, support_type) ==
    CASE support_type = "pin" -> SupportReactions(TRUE, TRUE, FALSE)
      [] support_type = "roller" -> SupportReactions(TRUE, FALSE, FALSE)
      [] support_type = "fixed" -> SupportReactions(TRUE, TRUE, TRUE)
      [] OTHER -> v

\* Support(**r): the fields that fail (position: ge=0, type: SupportType).
SupportErrors(r) ==
    (IF r.position >= 0 THEN {} ELSE {"position"})
    \cup (IF r.type \in SupportType THEN {} ELSE {"type"})

Support(r) ==
    [kind |-> "Support", position |-> r.position, type |-> r.type,
     reactions |-> validate_reactions(r.reactions,
                       IF r.type \in SupportType THEN r.type ELSE Unset)]

(***************************************************************************)
(* SupportConditions.                                                      *)
(***************************************************************************)
\* validate_supports without the check of the cantilever's support kind.
validate_supports_no_kind_check(v, beam_type) ==
    IF beam_type = "simply-supported" /\ Len(v) # 2 THEN TRUE
    ELSE IF beam_type = "cantilever" /\ Len(v) # 1 THEN TRUE
    ELSE IF beam_type = "fixed-fixed" /\ Len(v) # 2 THEN TRUE
    ELSE FALSE

\* SupportConditions.validate_supports: TRUE iff it raises.  v is the list
\* of validated Supports (min_items=1 has passed, so Len(v) >= 1).
validate_supports(v, beam_type) ==
    IF beam_type = "simply-supported" /\ Len(v) # 2 THEN TRUE
    ELSE IF beam_type = "cantilever" /\ Len(v) # 1 THEN TRUE
    ELSE IF beam_type = "fixed-fixed" /\ Len(v) # 2 THEN TRUE
    ELSE IF beam_type = "cantilever" THEN v[1].type # "fixed"
    ELSE FALSE

\* The validated list of a List[Support] field.
SupportList(rs) == [i \in 1..Len(rs) |-> Support(rs[i])]

\* SupportConditions(**r): the fields that fail.
SupportConditionsErrors(r) ==
    LET beam_type == IF r.type \in BeamType THEN r.type ELSE Unset IN
    (IF r.type \in BeamType THEN {} ELSE {"type"})
    \cup (IF \/ \E i \in 1..Len(r.supports) : SupportErrors(r.supports[i]) # {}
             \/ Len(r.supports) < 1
             \/ validate_supports(SupportList(r.supports), beam_type)
          THEN {"supports"} ELSE {})

SupportConditions(r) ==
    [kind |-> "SupportConditions", type |-> r.type, supports |-> SupportList(r.supports)]

(***************************************************************************)
(* Loads.  A raw load is a dict with a `type` tag; a required field the    *)
(* dict lacks is Omitted.  start_magnitude / end_magnitude, direction and  *)
(* angle carry no rule any validator reads and are left at valid values.   *)
(***************************************************************************)
\* A required float field with ge=0: TRUE iff it fails.
RequiredGe0Error(f) == f.set # "num" \/ ~(f.val >= 0)

\* PointLoad(**r).  magnitude is declared Field(..., ne=0); pydantic's Field
\* has no `ne` constraint, the keyword is kept as schema metadata only.
PointLoadErrors(r) ==
    (IF r.type = "point" THEN {} ELSE {"type"})
    \cup (IF r.magnitude.set = "num" THEN {} ELSE {"magnitude"})
    \cup (IF RequiredGe0Error(r.position) THEN {"position"} ELSE {})

PointLoad(r) ==
    [kind |-> "PointLoad", type |-> "point", magnitude |-> r.magnitude.val,
     position |-> r.position.val]

\* validate_positions comparing with < where the code has <=.
validate_positions_strict(v, start_pos) == start_pos # None /\ v < start_pos.val

\* DistributedLoad.validate_positions: TRUE iff it raises.  start_pos is
\* values.get('start_position'): None when that field failed.
validate_positions(v, start_pos) == start_pos # None /\ v <= start_pos.val

DistributedLoadErrors(r) ==
    LET start_pos == IF RequiredGe0Error(r.start_position) THEN None ELSE r.start_position IN
    (IF r.type = "distributed" THEN {} ELSE {"type"})
    \cup (IF RequiredGe0Error(r.start_position) THEN {"start_position"} ELSE {})
    \cup (IF RequiredGe0Error(r.end_position) \/ validate_positions(r.end_position.val, start_pos)
          THEN {"end_position"} ELSE {})

DistributedLoad(r) ==
    [kind |-> "DistributedLoad", type |-> "distributed",
     start_position |-> r.start_position.val, end_position |-> r.end_position.val]

\* MomentLoad(**r); `ne=0` as for PointLoad.
MomentLoadErrors(r) ==
    (IF r.type = "moment" THEN {} ELSE {"type"})
    \cup (IF r.magnitude.set = "num" THEN {} ELSE {"magnitude"})
    \cup (IF RequiredGe0Error(r.position) THEN {"position"} ELSE {})

MomentLoad(r) ==
    [kind |-> "MomentLoad", type |-> "moment", magnitude |-> r.magnitude.val,
     position |-> r.position.val]

\* Load = Union[PointLoad, DistributedLoad, MomentLoad]: the members are
\* tried in the order written; TRUE iff none accepts r.
LoadErrors(r) ==
    /\ PointLoadErrors(r) # {}
    /\ DistributedLoadErrors(r) # {}
    /\ MomentLoadErrors(r) # {}

Load(r) ==
    IF PointLoadErrors(r) = {} THEN PointLoad(r)
    ELSE IF DistributedLoadErrors(r) = {} THEN DistributedLoad(r)
    ELSE MomentLoad(r)

LoadList(rs) == [i \in 1..Len(rs) |-> Load(rs[i])]

\* LoadConditions(**r): loads is List[Load] with min_items=1.
LoadConditionsErrors(r) ==
    IF (\E i \in 1..Len(r.loads) : LoadErrors(r.loads[i])) \/ Len(r.loads) < 1
    THEN {"loads"} ELSE {}

LoadConditions(r) == [kind |-> "LoadConditions", loads |-> LoadList(r.loads)]

(***************************************************************************)
(* BeamProperties and AnalysisRequest.  Of BeamProperties the model keeps  *)
(* `length` (gt=0), the one field the request validators read; the other   *)
(* fields are taken valid.                                                 *)
(***************************************************************************)
BeamPropertiesErrors(r) == IF r.length > 0 THEN {} ELSE {"length"}

BeamProperties(r) == [kind |-> "BeamProperties", length |-> r.length]

hasattr(load, name) ==
    CASE name = "position" -> load.kind \in {"PointLoad", "MomentLoad"}
      [] name = "end_position" -> load.kind = "DistributedLoad"
      [] OTHER -> FALSE

\* validate_load_positions without the end_position check.
validate_load_positions_no_end(v, beam) ==
    /\ beam # NoEntity
    /\ \E i \in 1..Len(v.loads) :
          hasattr(v.loads[i], "position") /\ v.loads[i].position > beam.length

\* AnalysisRequest.validate_load_positions: TRUE iff it raises.  beam is
\* values.get('beam'): NoEntity when the beam failed validation.
validate_load_positions(v, beam) ==
    /\ beam # NoEntity
    /\ \E i \in 1..Len(v.loads) :
          \/ hasattr(v.loads[i], "position") /\ v.loads[i].position > beam.length
          \/ hasattr(v.loads[i], "end_position") /\ v.loads[i].end_position > beam.length

\* AnalysisRequest.validate_support_positions: TRUE iff it raises.
validate_support_positions(v, beam) ==
    /\ beam # NoEntity
    /\ \E i \in 1..Len(v.supports) : v.supports[i].position > beam.length

\* AnalysisRequest(**r): the fields that fail, validated in declaration
\* order beam, supports, loads.
AnalysisRequestErrors(r) ==
    LET beam == IF BeamPropertiesErrors(r.beam) = {} THEN BeamProperties(r.beam) ELSE NoEntity IN
    (IF BeamPropertiesErrors(r.beam) = {} THEN {} ELSE {"beam"})
    \cup (IF SupportConditionsErrors(r.supports) # {} THEN {"supports"}
          ELSE IF validate_support_positions(SupportConditions(r.supports), beam)
               THEN {"supports"} ELSE {})
    \cup (IF LoadConditionsErrors(r.loads) # {} THEN {"loads"}
          ELSE IF validate_load_positions(LoadConditions(r.loads), beam)
               THEN {"loads"} ELSE {})

AnalysisRequest(r) ==
    [kind |-> "AnalysisRequest", beam |-> BeamProperties(r.beam),
     supports |-> SupportConditions(r.supports), loads |-> LoadConditions(r.loads)]

(***************************************************************************)
(* Inputs.                                                                 *)
(***************************************************************************)
SeqsUpTo(S, n) == UNION {[1..k -> S] : k \in 0..n}

DimValues == {Omitted, Null, Num(0), Num(1)}
Magnitudes == {Num(0), Num(1)}
DefaultReactions == SupportReactions(TRUE, FALSE, FALSE)   \* SupportReactions()

RawCrossSections ==
    [kind : {"CrossSection"}, type : CrossSectionType \cup {Bogus},
     width : DimValues, height : DimValues, diameter : DimValues]

\* passing: the reactions are given as a dict, or as a SupportReactions
\* instance that pydantic copies ("copied": v1 Config.copy_on_model_validation)
\* or stores as it is ("shared": v2, revalidate_instances='never').
RawSupports ==
    [kind : {"Support"}, position : -1..MaxPos, type : SupportType \cup {Bogus},
     reactions : [vertical : BOOLEAN, horizontal : BOOLEAN, moment : BOOLEAN],
     passing : {"dict", "copied", "shared"}]

ValidElemSupports ==
    [position : 0..MaxPos, type : SupportType, reactions : {DefaultReactions}]

ElemSupports ==
    ValidElemSupports \cup {[position |-> -1, type |-> "pin", reactions |-> DefaultReactions]}

RawSupportConditions ==
    [kind : {"SupportConditions"}, type : BeamType \cup {Bogus},
     supports : SeqsUpTo(ElemSupports, MaxSupports)]

RawPositions == {Omitted} \cup {Num(n) : n \in -1..MaxPos}

RawPointLoads ==
    [kind : {"PointLoad"}, type : LoadType, magnitude : Magnitudes \cup {Omitted},
     position : RawPositions, start_position : {Omitted}, end_position : {Omitted}]

RawMomentLoads ==
    [kind : {"MomentLoad"}, type : LoadType, magnitude : Magnitudes \cup {Omitted},
     position : RawPositions, start_position : {Omitted}, end_position : {Omitted}]

RawDistributedLoads ==
    [kind : {"DistributedLoad"}, type : LoadType, magnitude : {Omitted},
     position : {Omitted}, start_position : RawPositions, end_position : RawPositions]

\* The dicts a loads list is made of.
ElemLoads ==
    [type : {"point", "moment"}, magnitude : Magnitudes,
     position : {Num(n) : n \in 0..MaxPos}, start_position : {Omitted},
     end_position : {Omitted}]
    \cup [type : {"distributed"}, magnitude : {Omitted}, position : {Omitted},
          start_position : {Num(n) : n \in 0..MaxPos},
          end_position : {Num(n) : n \in 0..MaxPos}]

RawLoadConditions == [kind : {"LoadConditions"}, loads : SeqsUpTo(ElemLoads, MaxLoads)]

\* A request body: supports lists up to the two supports a beam type asks
\* for, loads lists up to the one load min_items asks for.
RawAnalysisRequests ==
    [kind : {"AnalysisRequest"}, beam : [length : 0..MaxPos],
     supports : [type : BeamType, supports : SeqsUpTo(ValidElemSupports, RequiredTwo)],
     loads : [loads : SeqsUpTo(ElemLoads, MinItems)]]

RawInputs ==
    RawCrossSections \cup RawSupports \cup RawSupportConditions \cup RawPointLoads
    \cup RawDistributedLoads \cup RawMomentLoads \cup RawLoadConditions
    \cup RawAnalysisRequests

(***************************************************************************)
(* The data model's state machine: Init draws an input; a constructor      *)
(* validates it and either produces the entity or rejects it.              *)
(***************************************************************************)
DataStart ==
    /\ raw \in RawInputs
    /\ entity = NoEntity
    /\ outcome = "pending"
    /\ callerObj = IF raw.kind = "Support" /\ raw.passing # "dict"
                   THEN [alias |-> "instance", flags |-> raw.reactions]
                   ELSE NoObj
    /\ assigned = 0

\* Model(**raw) for a model whose failing fields are errs and whose value is obj.
Construct(errs, obj) ==
    /\ outcome = "pending"
    /\ outcome' = IF errs = {} THEN "accepted" ELSE "rejected"
    /\ entity' = IF errs = {} THEN obj ELSE NoEntity
    /\ UNCHANGED <<raw, assigned>>
    /\ UNCHANGED <<apiVars, clientVars>>

ConstructCrossSection ==
    /\ raw.kind = "CrossSection"
    /\ Construct(CrossSectionErrors(raw), CrossSection(raw))
    /\ UNCHANGED callerObj

\* The validator assigns to v; when v is the caller's own instance the
\* caller sees the assignment, whether or not the Support is accepted.
ConstructSupport ==
    /\ raw.kind = "Support"
    /\ Construct(SupportErrors(raw), Support(raw))
    /\ callerObj' = IF raw.passing = "shared"
                    THEN [callerObj EXCEPT !.flags = Support(raw).reactions]
                    ELSE callerObj

ConstructSupportConditions ==
    /\ raw.kind = "SupportConditions"
    /\ Construct(SupportConditionsErrors(raw), SupportConditions(raw))
    /\ UNCHANGED callerObj

ConstructPointLoad ==
    /\ raw.kind = "PointLoad"
    /\ Construct(PointLoadErrors(raw), PointLoad(raw))
    /\ UNCHANGED callerObj

ConstructDistributedLoad ==
    /\ raw.kind = "DistributedLoad"
    /\ Construct(DistributedLoadErrors(raw), DistributedLoad(raw))
    /\ UNCHANGED callerObj

ConstructMomentLoad ==
    /\ raw.kind = "MomentLoad"
    /\ Construct(MomentLoadErrors(raw), MomentLoad(raw))
    /\ UNCHANGED callerObj

ConstructLoadConditions ==
    /\ raw.kind = "LoadConditions"
    /\ Construct(LoadConditionsErrors(raw), LoadConditions(raw))
    /\ UNCHANGED callerObj

ConstructAnalysisRequest ==
    /\ raw.kind = "AnalysisRequest"
    /\ Construct(AnalysisRequestErrors(raw), AnalysisRequest(raw))
    /\ UNCHANGED callerObj

\* support.position = p on a constructed Support.  The models declare no
\* Config (no allow_mutation=False / frozen, no validate_assignment), so
\* the assignment stores p as it is.
SetAttrPosition ==
    /\ outcome = "accepted" /\ entity.kind = "Support" /\ assigned < MaxAssign
    /\ \E p \in -1..MaxPos : entity' = [entity EXCEPT !.position = p]
    /\ assigned' = assigned + 1
    /\ UNCHANGED <<raw, outcome, callerObj>>
    /\ UNCHANGED <<apiVars, clientVars>>

\* support.reactions.<flag> = b on a constructed Support; the caller's
\* instance is the same object when pydantic stored it without copying.
SetAttrReaction ==
    /\ outcome = "accepted" /\ entity.kind = "Support" /\ assigned < MaxAssign
    /\ \E f \in {"vertical", "horizontal", "moment"}, b \in BOOLEAN :
          /\ entity' = [entity EXCEPT !.reactions[f] = b]
          /\ callerObj' = IF raw.passing = "shared"
                          THEN [callerObj EXCEPT !.flags[f] = b]
                          ELSE callerObj
    /\ assigned' = assigned + 1
    /\ UNCHANGED <<raw, outcome>>
    /\ UNCHANGED <<apiVars, clientVars>>

DataNext ==
    \/ ConstructCrossSection
    \/ ConstructSupport
    \/ ConstructSupportConditions
    \/ ConstructPointLoad
    \/ ConstructDistributedLoad
    \/ ConstructMomentLoad
    \/ ConstructLoadConditions
    \/ ConstructAnalysisRequest
    \/ SetAttrPosition
    \/ SetAttrReaction


(***************************************************************************)
(* POST /api/analyze (main.py 67-103) and the HTTPException handler        *)
(* (main.py 192-201).  FastAPI has parsed the body into an AnalysisRequest *)
(* before the handler runs.  The two services are called through their     *)
(* interface: each either returns or raises, and the model follows every   *)
(* such outcome.                                                           *)
(***************************************************************************)
NoExc == [type |-> "none"]
NoResponse == [status_code |-> 0]
NoValidation == [is_valid |-> TRUE, errors |-> <<>>, returned |-> FALSE]

ErrorTexts == {"supports", "loads"}

\* ValidationResult (beam_models.py 267-270): is_valid and a list of errors.
ValidationResults ==
    [is_valid : BOOLEAN, errors : SeqsUpTo(ErrorTexts, MaxErrors), returned : {TRUE}]

HTTPException(status_code, detail) ==
    [type |-> "HTTPException", status_code |-> status_code, detail |-> detail]

ValueError(msg) == [type |-> "ValueError", msg |-> msg]

\* Any exception that is neither a ValueError nor an HTTPException.
OtherException == [type |-> "Exception"]

ApiInit ==
    /\ apiPc = "idle"
    /\ request = 0
    /\ validation_result = NoValidation
    /\ exc = NoExc
    /\ calls = <<>>
    /\ response = NoResponse
    /\ served = 0

\* The request arrives; the handler logs the start (line 79).
Receive ==
    /\ apiPc \in {"idle", "responded"}
    /\ served < MaxRequests
    /\ request' = served + 1
    /\ apiPc' = "validate"
    /\ validation_result' = NoValidation
    /\ exc' = NoExc
    /\ calls' = <<>>
    /\ response' = NoResponse
    /\ UNCHANGED served
    /\ UNCHANGED <<dataVars, clientVars>>

\* line 82: validation_service.validate_analysis_request(request) returns.
ValidationReturns ==
    /\ apiPc = "validate"
    /\ \E r \in ValidationResults :
          /\ validation_result' = r
          /\ calls' = Append(calls, [op |-> "validate_analysis_request",
                                     result |-> IF r.is_valid THEN "valid" ELSE "invalid"])
    /\ apiPc' = "check"
    /\ UNCHANGED <<request, exc, response, served>>
    /\ UNCHANGED <<dataVars, clientVars>>

\* line 82: the validation service raises instead.
ValidationRaises ==
    /\ apiPc = "validate"
    /\ \E e \in {ValueError("bad request"), OtherException} : exc' = e
    /\ calls' = Append(calls, [op |-> "validate_analysis_request", result |-> "raised"])
    /\ apiPc' = "except"
    /\ UNCHANGED <<request, validation_result, response, served>>
    /\ UNCHANGED <<dataVars, clientVars>>

\* The check of line 83 letting every result through.
GoesOnToAnalysis_unchecked(r) == TRUE

\* line 83: `if not validation_result.is_valid` lets the handler go on iff
\* the result is valid.
GoesOnToAnalysis(r) == r.is_valid

\* lines 83-90: an invalid result raises HTTPException(400, ...) inside the try.
CheckValidation ==
    /\ apiPc = "check"
    /\ IF GoesOnToAnalysis(validation_result)
       THEN apiPc' = "analyze" /\ exc' = exc
       ELSE /\ apiPc' = "except"
            /\ exc' = HTTPException(400, [message |-> "Invalid input data",
                                          errors |-> validation_result.errors])
    /\ UNCHANGED <<request, validation_result, calls, response, served>>
    /\ UNCHANGED <<dataVars, clientVars>>

\* line 93: await beam_calculator.analyze_beam(request) returns results;
\* lines 95-96 return them (status 200).
AnalysisReturns ==
    /\ apiPc = "analyze"
    /\ calls' = Append(calls, [op |-> "analyze_beam", result |-> "returned"])
    /\ response' = [status_code |-> 200, content |-> [request_id |-> request]]
    /\ apiPc' = "responded"
    /\ served' = served + 1
    /\ UNCHANGED <<request, validation_result, exc>>
    /\ UNCHANGED <<dataVars, clientVars>>

\* line 93: the calculator raises.
AnalysisRaises ==
    /\ apiPc = "analyze"
    /\ \E e \in {ValueError("singular system"), OtherException} : exc' = e
    /\ calls' = Append(calls, [op |-> "analyze_beam", result |-> "raised"])
    /\ apiPc' = "except"
    /\ UNCHANGED <<request, validation_result, response, served>>
    /\ UNCHANGED <<dataVars, clientVars>>

\* lines 98-103: the except clauses of the try, tried in order.  ValueError
\* first; then `except Exception`, which every other exception matches,
\* an HTTPException raised inside the try included.
ExceptClauses(e) ==
    IF e.type = "ValueError"
    THEN HTTPException(400, [message |-> e.msg, errors |-> <<>>])
    ELSE HTTPException(500, [message |-> "Internal calculation error", errors |-> <<>>])

\* The exception raised in the try body is caught and replaced.
Except ==
    /\ apiPc = "except"
    /\ exc' = ExceptClauses(exc)
    /\ apiPc' = "handler"
    /\ UNCHANGED <<request, validation_result, calls, response, served>>
    /\ UNCHANGED <<dataVars, clientVars>>

\* lines 192-201: http_exception_handler turns the HTTPException that left
\* the endpoint into the JSON response.
http_exception_handler(e) ==
    [status_code |-> e.status_code, content |-> [error |-> TRUE, message |-> e.detail]]

HandleHTTPException ==
    /\ apiPc = "handler"
    /\ response' = http_exception_handler(exc)
    /\ exc' = NoExc
    /\ apiPc' = "responded"
    /\ served' = served + 1
    /\ UNCHANGED <<request, validation_result, calls>>
    /\ UNCHANGED <<dataVars, clientVars>>

ApiNext ==
    \/ Receive
    \/ ValidationReturns
    \/ ValidationRaises
    \/ CheckValidation
    \/ AnalysisReturns
    \/ AnalysisRaises
    \/ Except
    \/ HandleHTTPException

(***************************************************************************)
(* MCPClient (mcp_client.py).  A configuration dict is modelled by where   *)
(* it came from and the keys it holds; it is truthy iff it holds a key.    *)
(***************************************************************************)
NoData == [src |-> "none", keys |-> {}]      \* None
NoUrl == "no-url"
NoToken == "no-token"
NoCall == [op |-> "none"]

EnvNames == {"CENTRAL_MCP_SERVER_URL", "CENTRAL_MCP_CLIENT_TOKEN", "HOME",
             "mySecretKey", "MYSECRETKEY"}
\* A candidate file: missing; present but failing to load; or holding
\*   "empty":        {}
\*   "config":       {"mySecretKey": ...}
\*   "secrets":      {"secrets": {"mySecretKey": ...}, "mySecretKey": ...}
\*   "secrets_null": {"secrets": null}
FileStates == {"absent", "unreadable", "empty", "config", "secrets", "secrets_null"}
Loadable == {"empty", "config", "secrets", "secrets_null"}
\* GET <url>/context: a JSON object with keys, an empty JSON object, a
\* status raise_for_status() rejects, or no connection.
RemoteAnswers == {"config", "empty", "http_error", "connection_error"}

Truthy(d) == d.keys # {}

startswith(k, prefix) ==
    CASE prefix = "CENTRAL_" -> k \in {"CENTRAL_MCP_SERVER_URL", "CENTRAL_MCP_CLIENT_TOKEN"}
      [] OTHER -> FALSE

\* line 56: {k: v for k, v in os.environ.items() if k.startswith("CENTRAL_")}
env_obj == [src |-> "env", keys |-> {k \in environ : startswith(k, "CENTRAL_")}]

\* _read_local (lines 23-38): the first candidate that exists and loads;
\* one that exists and fails to load is skipped.
FileContent(name, f) ==
    [src |-> name,
     keys |-> CASE f = "config" -> {"mySecretKey"}
                [] f = "secrets" -> {"secrets", "mySecretKey"}
                [] f = "secrets_null" -> {"secrets"}
                [] OTHER -> {}]

_read_local ==
    IF fileC \in Loadable THEN FileContent("fileC", fileC)
    ELSE IF fileW \in Loadable THEN FileContent("fileW", fileW)
    ELSE NoData

Value(d) == [kind |-> "value", data |-> d]
Raised(e) == [kind |-> "raised", error |-> e]

\* _fetch_remote (lines 40-50), the server answering `answer`.
_fetch_remote(answer) ==
    IF url = NoUrl THEN Raised("RuntimeError")
    ELSE CASE answer = "config" -> Value([src |-> "remote", keys |-> {"mySecretKey"}])
           [] answer = "empty" -> Value([src |-> "remote", keys |-> {}])
           [] answer = "http_error" -> Raised("HTTPError")
           [] OTHER -> Raised("ConnectionError")

\* `at`: the time of the call.
GetAllResult(result, consulted, newCache) ==
    [call |-> [op |-> "get_all", result |-> result, consulted |-> consulted, at |-> now],
     cache |-> newCache]

\* get_all consulting the local file before the environment.
get_all_local_first(answer) ==
    IF Truthy(cache.data) /\ (now - cache.ts) < CacheTtl
    THEN GetAllResult(Value(cache.data), <<"cache">>, cache)
    ELSE IF Truthy(_read_local)
    THEN GetAllResult(Value(_read_local), <<"cache", "local">>,
                      [data |-> _read_local, ts |-> now])
    ELSE IF Truthy(env_obj)
    THEN GetAllResult(Value(env_obj), <<"cache", "local", "env">>,
                      [data |-> env_obj, ts |-> now])
    ELSE LET remote == _fetch_remote(answer) IN
         GetAllResult(remote, <<"cache", "local", "env", "remote">>,
                      IF remote.kind = "value"
                      THEN [data |-> remote.data, ts |-> now] ELSE cache)

\* get_all with the cached data still served at age cache_ttl.
get_all_ttl_inclusive(answer) ==
    IF Truthy(cache.data) /\ (now - cache.ts) <= CacheTtl
    THEN GetAllResult(Value(cache.data), <<"cache">>, cache)
    ELSE IF Truthy(env_obj)
    THEN GetAllResult(Value(env_obj), <<"cache", "env">>, [data |-> env_obj, ts |-> now])
    ELSE IF Truthy(_read_local)
    THEN GetAllResult(Value(_read_local), <<"cache", "env", "local">>,
                      [data |-> _read_local, ts |-> now])
    ELSE LET remote == _fetch_remote(answer) IN
         GetAllResult(remote, <<"cache", "env", "local", "remote">>,
                      IF remote.kind = "value" THEN [data |-> remote.data, ts |-> now]
                      ELSE cache)

\* get_all (lines 52-68), the remote server answering `answer` if asked:
\* the call's result, the sources consulted in order, and the cache after.
get_all(answer) ==
    IF Truthy(cache.data) /\ (now - cache.ts) < CacheTtl
    THEN GetAllResult(Value(cache.data), <<"cache">>, cache)
    ELSE IF Truthy(env_obj)
    THEN GetAllResult(Value(env_obj), <<"cache", "env">>,
                      [data |-> env_obj, ts |-> now])
    ELSE IF Truthy(_read_local)
    THEN GetAllResult(Value(_read_local), <<"cache", "env", "local">>,
                      [data |-> _read_local, ts |-> now])
    ELSE LET remote == _fetch_remote(answer) IN
         GetAllResult(remote, <<"cache", "env", "local", "remote">>,
                      IF remote.kind = "value"
                      THEN [data |-> remote.data, ts |-> now] ELSE cache)

\* __init__ (lines 9-18) with arguments urlArg, tokenArg and cache_ttl =
\* CacheTtl, in an environment and file system drawn here.
ClientInit ==
    /\ environ \in SUBSET EnvNames
    /\ fileC \in FileStates
    /\ fileW \in FileStates
    /\ \E urlArg \in {NoUrl, "http://mcp"} :
          url = IF urlArg # NoUrl THEN urlArg
                ELSE IF "CENTRAL_MCP_SERVER_URL" \in environ THEN "http://env-mcp"
                ELSE NoUrl
    /\ \E tokenArg \in {NoToken, "token"} :
          token = IF tokenArg # NoToken THEN tokenArg
                  ELSE IF "CENTRAL_MCP_CLIENT_TOKEN" \in environ THEN "env-token"
                  ELSE NoToken
    /\ cache = [data |-> NoData, ts |-> 0]
    /\ now = 0
    /\ lastCall = NoCall

ClientIdle ==
    /\ environ = {}
    /\ fileC = "absent"
    /\ fileW = "absent"
    /\ url = NoUrl
    /\ token = NoToken
    /\ cache = [data |-> NoData, ts |-> 0]
    /\ now = 0
    /\ lastCall = NoCall

\* A call of get_all().
GetAll ==
    /\ \E answer \in RemoteAnswers :
          /\ cache' = get_all(answer).cache
          /\ lastCall' = get_all(answer).call
    /\ UNCHANGED <<environ, fileC, fileW, url, token, now>>
    /\ UNCHANGED <<dataVars, apiVars>>

(***************************************************************************)
(* get_secret (lines 74-130).  A secret's value is modelled by the place   *)
(* it was read from.                                                       *)
(***************************************************************************)
SecretNames == {"mySecretKey", "HOME"}

\* name.upper()
upper(name) == IF name = "mySecretKey" THEN "MYSECRETKEY" ELSE name

\* What a request to the server comes back with: status 200 and a JSON
\* object holding the wanted key, 200 and a JSON object without it, 200 and
\* a body that is no JSON object, another status, or no response at all
\* (requests raises).
Answers == {"200_value", "200_missing", "200_badjson", "non200", "error"}

\* r.status_code (0: there is no response).
status_code(answer) ==
    CASE answer \in {"200_value", "200_missing", "200_badjson"} -> 200
      [] answer = "non200" -> 403
      [] OTHER -> 0

NoSecret == [src |-> "none", at |-> "none"]     \* None
SecretValue(src, at) == [src |-> src, at |-> at]

\* The content of the file _read_local loaded.
LocalState ==
    IF fileC \in Loadable THEN fileC
    ELSE IF fileW \in Loadable THEN fileW
    ELSE "absent"

GetSecretResult(name, result, requests) ==
    [op |-> "get_secret", name |-> name, result |-> result, requests |-> requests]

Request(req, answer) == [req |-> req, status |-> status_code(answer)]

\* lines 91-130: the remote part, the server answering the direct request
\* with `direct`, POST /token with `tok` and the request under the
\* short-lived token with `jwt`.
get_secret_remote(name, direct, tok, jwt) ==
    LET first == IF token # NoToken THEN <<Request("GET /secrets direct", direct)>> ELSE <<>>
        exchange == first \o <<Request("POST /token", tok)>>
        second == exchange \o <<Request("GET /secrets jwt", jwt)>>
    IN
    IF url = NoUrl THEN GetSecretResult(name, Value(NoSecret), <<>>)
    ELSE IF token = NoToken THEN GetSecretResult(name, Value(NoSecret), <<>>)
    ELSE IF direct = "200_value"
         THEN GetSecretResult(name, Value(SecretValue("remote", "token")), first)
    ELSE IF direct = "200_missing" THEN GetSecretResult(name, Value(NoSecret), first)
    \* a 200 whose body fails in r.json().get raises inside the try: pass
    ELSE IF tok # "200_value" THEN GetSecretResult(name, Value(NoSecret), exchange)
    ELSE IF jwt = "200_value"
         THEN GetSecretResult(name, Value(SecretValue("remote", "jwt")), second)
    ELSE GetSecretResult(name, Value(NoSecret), second)

\* get_secret(name) (lines 74-130).
get_secret(name, direct, tok, jwt) ==
    IF name \in environ
    THEN GetSecretResult(name, Value(SecretValue("env", name)), <<>>)
    ELSE IF upper(name) \in environ
    THEN GetSecretResult(name, Value(SecretValue("env", upper(name))), <<>>)
    ELSE IF Truthy(_read_local) /\ LocalState = "secrets_null"
    \* `name in local["secrets"]` with local["secrets"] = None, outside any try
    THEN GetSecretResult(name, Raised("TypeError"), <<>>)
    ELSE IF Truthy(_read_local) /\ LocalState = "secrets" /\ name = "mySecretKey"
    THEN GetSecretResult(name, Value(SecretValue(_read_local.src, "secrets")), <<>>)
    ELSE IF Truthy(_read_local) /\ name \in _read_local.keys
    THEN GetSecretResult(name, Value(SecretValue(_read_local.src, "top")), <<>>)
    ELSE get_secret_remote(name, direct, tok, jwt)

\* A call of get_secret(name).  The answer to a request that is not sent
\* is "unsent".
GetSecret ==
    /\ \E name \in SecretNames, direct \in Answers :
       \E tok \in IF direct \in {"200_value", "200_missing"} THEN {"unsent"} ELSE Answers :
       \E jwt \in IF tok = "200_value" THEN Answers ELSE {"unsent"} :
          lastCall' = get_secret(name, direct, tok, jwt)
    /\ UNCHANGED <<environ, fileC, fileW, url, token, cache, now>>
    /\ UNCHANGED <<dataVars, apiVars>>

\* _now (lines 20-21): a second passes.
Tick ==
    /\ now < MaxTime
    /\ now' = now + 1
    /\ UNCHANGED <<environ, fileC, fileW, url, token, cache, lastCall>>
    /\ UNCHANGED <<dataVars, apiVars>>

ClientNext ==
    \/ GetAll
    \/ Tick

\* get_secret reads neither the cache nor the clock: its calls are explored
\* next to get_all's at a fixed time.
SecretNext ==
    \/ GetSecret
    \/ GetAll

(***************************************************************************)
(* Specifications.                                                         *)
(***************************************************************************)
\* A data-model input that stays untouched while another part runs.
DataIdle ==
    /\ raw = [kind |-> "none"]
    /\ entity = NoEntity
    /\ outcome = "pending"
    /\ callerObj = NoObj
    /\ assigned = 0

DataInit == DataStart /\ ApiInit /\ ClientIdle

Spec == DataInit /\ [][DataNext]_vars

SpecApiInit == DataIdle /\ ApiInit /\ ClientIdle

SpecApi == SpecApiInit /\ [][ApiNext]_vars

SpecClientInit == DataIdle /\ ApiInit /\ ClientInit

SpecClient == SpecClientInit /\ [][ClientNext]_vars
SpecSecret == SpecClientInit /\ [][SecretNext]_vars

(***************************************************************************)
(* Claims about the data model (checked under Spec).                       *)
(***************************************************************************)
Constructed(k) == outcome = "accepted" /\ entity.kind = k /\ assigned = 0
Decided(k) == outcome # "pending" /\ raw.kind = k

\* The Supports a freshly constructed entity holds.
SupportsOf(e) ==
    CASE e.kind = "Support" -> {e}
      [] e.kind = "SupportConditions" -> {e.supports[i] : i \in 1..Len(e.supports)}
      [] e.kind = "AnalysisRequest" ->
            {e.supports.supports[i] : i \in 1..Len(e.supports.supports)}
      [] OTHER -> {}

\* The loads a freshly constructed entity holds.
LoadsOf(e) ==
    CASE e.kind \in {"PointLoad", "DistributedLoad", "MomentLoad"} -> {e}
      [] e.kind = "LoadConditions" -> {e.loads[i] : i \in 1..Len(e.loads)}
      [] e.kind = "AnalysisRequest" -> {e.loads.loads[i] : i \in 1..Len(e.loads.loads)}
      [] OTHER -> {}

\* C1: every successfully constructed Support carries exactly the reaction
\* flags of its kind, whatever flags the caller supplied: pin V,H; roller V;
\* fixed V,H,M.
C1_FlagsByKind ==
    (outcome = "accepted" /\ assigned = 0) =>
        \A s \in SupportsOf(entity) :
            /\ s.type = "pin" =>
                 s.reactions = [vertical |-> TRUE, horizontal |-> TRUE, moment |-> FALSE]
            /\ s.type = "roller" =>
                 s.reactions = [vertical |-> TRUE, horizontal |-> FALSE, moment |-> FALSE]
            /\ s.type = "fixed" =>
                 s.reactions = [vertical |-> TRUE, horizontal |-> TRUE, moment |-> TRUE]

\* A roller was constructed from flags that claimed a horizontal reaction
\* and a moment, and carries neither.
C1_Witness ==
    /\ Constructed("Support") /\ entity.type = "roller"
    /\ raw.reactions = [vertical |-> FALSE, horizontal |-> TRUE, moment |-> TRUE]
    /\ entity.reactions = [vertical |-> TRUE, horizontal |-> FALSE, moment |-> FALSE]

\* The count and kind rules of a support configuration.
SupportRules(type, supports) ==
    /\ type \in {"simply-supported", "fixed-fixed"} => Len(supports) = 2
    /\ type = "cantilever" => Len(supports) = 1 /\ supports[1].type = "fixed"

\* C2: constructing SupportConditions fails whenever the count / kind rules
\* of its beam type are broken, and every accepted SupportConditions (alone
\* or inside a request) satisfies them.
C2_SupportRules ==
    /\ (Decided("SupportConditions") /\ ~SupportRules(raw.type, raw.supports))
          => outcome = "rejected"
    /\ (Decided("AnalysisRequest") /\ ~SupportRules(raw.supports.type, raw.supports.supports))
          => outcome = "rejected"
    /\ Constructed("SupportConditions") => SupportRules(entity.type, entity.supports)
    /\ Constructed("AnalysisRequest")
          => SupportRules(entity.supports.type, entity.supports.supports)

\* A cantilever with one valid support that is a pin was rejected.
C2_Witness ==
    /\ Decided("SupportConditions") /\ outcome = "rejected"
    /\ raw.type = "cantilever" /\ Len(raw.supports) = 1
    /\ raw.supports[1].type = "pin" /\ raw.supports[1].position >= 0

\* Some position of a raw request lies beyond the beam's length.
ExceedsLength(r) ==
    \/ \E i \in 1..Len(r.supports.supports) : r.supports.supports[i].position > r.beam.length
    \/ \E i \in 1..Len(r.loads.loads) :
          \E f \in {"position", "start_position", "end_position"} :
              r.loads.loads[i][f].set = "num" /\ r.loads.loads[i][f].val > r.beam.length

InSpan(p, beam) == 0 <= p /\ p <= beam.length

\* C3: in every accepted AnalysisRequest each support position, each point
\* and moment load position and each distributed load's start and end
\* position lies in [0, beam.length]; a request with one of them beyond
\* beam.length is rejected.
C3_PositionsInSpan ==
    /\ (Decided("AnalysisRequest") /\ ExceedsLength(raw)) => outcome = "rejected"
    /\ Constructed("AnalysisRequest") =>
          /\ \A s \in SupportsOf(entity) : InSpan(s.position, entity.beam)
          /\ \A l \in LoadsOf(entity) :
                IF l.kind = "DistributedLoad"
                THEN InSpan(l.start_position, entity.beam) /\ InSpan(l.end_position, entity.beam)
                ELSE InSpan(l.position, entity.beam)

\* A request whose parts are all valid on their own, whose supports lie on
\* the beam, and whose distributed load ends beyond the beam was rejected.
C3_Witness ==
    /\ Decided("AnalysisRequest") /\ outcome = "rejected"
    /\ BeamPropertiesErrors(raw.beam) = {}
    /\ SupportConditionsErrors(raw.supports) = {}
    /\ LoadConditionsErrors(raw.loads) = {}
    /\ \A i \in 1..Len(raw.supports.supports) :
          raw.supports.supports[i].position <= raw.beam.length
    /\ raw.loads.loads[1].type = "distributed"
    /\ raw.loads.loads[1].end_position.val > raw.beam.length

\* C4: a distributed load with end_position <= start_position is rejected
\* when it is constructed, so no accepted load, LoadConditions or request
\* holds a distributed load with end_position <= start_position.
C4_DistributedOrdered ==
    /\ ( /\ Decided("DistributedLoad")
         /\ raw.start_position.set = "num" /\ raw.end_position.set = "num"
         /\ raw.end_position.val <= raw.start_position.val ) => outcome = "rejected"
    /\ (outcome = "accepted" /\ assigned = 0) =>
          \A l \in LoadsOf(entity) :
              l.kind = "DistributedLoad" => l.end_position > l.start_position

\* A distributed load, valid but for end_position = start_position, was rejected.
C4_Witness ==
    /\ Decided("DistributedLoad") /\ outcome = "rejected"
    /\ raw.type = "distributed"
    /\ raw.start_position = Num(1) /\ raw.end_position = Num(1)

\* C5: every accepted rectangular CrossSection has width and height, every
\* accepted circular one has diameter.
C5_DimensionsPresent ==
    Constructed("CrossSection") =>
        /\ entity.type = "rectangular" => entity.width # None /\ entity.height # None
        /\ entity.type = "circular" => entity.diameter # None

\* C6: every accepted point load and moment load has a magnitude other than 0.
C6_MagnitudeNonZero ==
    (outcome = "accepted" /\ assigned = 0) =>
        \A l \in LoadsOf(entity) :
            l.kind \in {"PointLoad", "MomentLoad"} => l.magnitude # 0

\* C7: once an entity is constructed no later operation changes any of its
\* fields, and no step changes the SupportReactions instance the caller
\* passed to Support.
C7_Immutable ==
    [][(outcome = "accepted" => entity' = entity) /\ callerObj' = callerObj]_vars

(***************************************************************************)
(* Claims about the analyze endpoint (checked under SpecApi).              *)
(***************************************************************************)
\* C8: the calculator is invoked only after validation of the request has
\* completed, and only if validation reported the request valid.
C8_ValidatedBeforeAnalysis ==
    \A i \in 1..Len(calls) :
        calls[i].op = "analyze_beam" =>
            /\ \E j \in 1..(i - 1) :
                  calls[j].op = "validate_analysis_request" /\ calls[j].result = "valid"
            /\ validation_result.returned /\ validation_result.is_valid

\* The calculator has been invoked for a request (after a valid validation).
C8_Witness ==
    /\ Len(calls) = 2
    /\ calls[1] = [op |-> "validate_analysis_request", result |-> "valid"]
    /\ calls[2].op = "analyze_beam"

\* C10: a request the validation service reports invalid is answered with
\* status 400, the message "Invalid input data" and the validation errors.
C10_InvalidAnswered400 ==
    (apiPc = "responded" /\ validation_result.returned /\ ~validation_result.is_valid) =>
        /\ response.status_code = 400
        /\ response.content.message =
              [message |-> "Invalid input data", errors |-> validation_result.errors]

(***************************************************************************)
(* Claims about MCPClient (checked under SpecClient and SpecSecret).       *)
(***************************************************************************)
CentralSet == environ \cap {"CENTRAL_MCP_SERVER_URL", "CENTRAL_MCP_CLIENT_TOKEN"}

\* The first loadable candidate file holds a non-empty configuration.
LocalNonEmpty ==
    \/ fileC \in {"config", "secrets", "secrets_null"}
    \/ fileC \in {"absent", "unreadable"} /\ fileW \in {"config", "secrets", "secrets_null"}

\* C9: a get_all that does not answer from its cache takes the
\* configuration from the first non-empty source in the order environment
\* (CENTRAL_ names), local file, remote /context; a later source is
\* consulted only if every earlier one yielded nothing, and the remote step
\* raises when no URL is configured.
C9_SourceOrder ==
    (lastCall.op = "get_all" /\ lastCall.consulted # <<"cache">>) =>
        /\ CentralSet # {} =>
              /\ lastCall.consulted = <<"cache", "env">>
              /\ lastCall.result = Value([src |-> "env", keys |-> CentralSet])
        /\ (CentralSet = {} /\ LocalNonEmpty) =>
              /\ lastCall.consulted = <<"cache", "env", "local">>
              /\ lastCall.result.kind = "value"
              /\ lastCall.result.data.src =
                    (IF fileC \in {"absent", "unreadable"} THEN "fileW" ELSE "fileC")
              /\ lastCall.result.data.keys # {}
        /\ (CentralSet = {} /\ ~LocalNonEmpty) =>
              /\ lastCall.consulted = <<"cache", "env", "local", "remote">>
              /\ url = NoUrl => lastCall.result = Raised("RuntimeError")
              /\ url # NoUrl =>
                    \/ lastCall.result.kind = "value" /\ lastCall.result.data.src = "remote"
                    \/ lastCall.result \in {Raised("HTTPError"), Raised("ConnectionError")}

\* With no CENTRAL_ variable set and no local configuration, get_all went
\* through all three sources and returned the remote configuration.
C9_Witness ==
    /\ lastCall.op = "get_all"
    /\ CentralSet = {} /\ ~LocalNonEmpty /\ url # NoUrl
    /\ lastCall.consulted = <<"cache", "env", "local", "remote">>
    /\ lastCall.result = Value([src |-> "remote", keys |-> {"mySecretKey"}])


(***************************************************************************)
(* C11: get_secret(name) returns the value of the first source that has    *)
(* the secret, in the order: environment variable with the exact name,     *)
(* environment variable with the upper-cased name, local file entry        *)
(* secrets[name], local file top-level entry name, remote /secrets/name    *)
(* with the configured token, remote /secrets/name with a short-lived      *)
(* token from /token; the /token exchange is attempted only after the      *)
(* direct-token request did not return status 200; no remote request is    *)
(* made when no URL is configured; and when no source yields the secret    *)
(* it returns None rather than raising.                                    *)
(***************************************************************************)
C11_LocalSecretsEntry(name) == LocalState = "secrets" /\ name = "mySecretKey"
C11_LocalTopEntry(name) == LocalState \in {"config", "secrets"} /\ name = "mySecretKey"
C11_LocalSrc == IF fileC \in {"absent", "unreadable"} THEN "fileW" ELSE "fileC"

C11_TokenOnlyAfterFailedDirect(requests) ==
    \A i \in 1..Len(requests) :
        requests[i].req = "POST /token" =>
            /\ i > 1
            /\ requests[i - 1].req = "GET /secrets direct"
            /\ requests[i - 1].status # 200

C11_Returns(call) ==
    LET name == call.name IN
    /\ call.result.kind = "value"
    /\ IF name \in environ
         THEN call.result.data = SecretValue("env", name) /\ call.requests = <<>>
       ELSE IF upper(name) \in environ
         THEN call.result.data = SecretValue("env", upper(name)) /\ call.requests = <<>>
       ELSE IF C11_LocalSecretsEntry(name)
         THEN call.result.data = SecretValue(C11_LocalSrc, "secrets") /\ call.requests = <<>>
       ELSE IF C11_LocalTopEntry(name)
         THEN call.result.data = SecretValue(C11_LocalSrc, "top") /\ call.requests = <<>>
       ELSE /\ url = NoUrl => call.requests = <<>>
            /\ call.result.data \in {SecretValue("remote", "token"),
                                      SecretValue("remote", "jwt"), NoSecret}
            /\ call.result.data = SecretValue("remote", "token") =>
                   call.requests = <<[req |-> "GET /secrets direct", status |-> 200]>>
            /\ call.result.data = SecretValue("remote", "jwt") =>
                   /\ Len(call.requests) = 3
                   /\ call.requests[3] = [req |-> "GET /secrets jwt", status |-> 200]

C11_SecretResolution ==
    lastCall.op = "get_secret" =>
        /\ C11_Returns(lastCall)
        /\ C11_TokenOnlyAfterFailedDirect(lastCall.requests)

(***************************************************************************)
(* C12: once the cache holds non-empty data stored at time t, a get_all    *)
(* call at a time before t + cache_ttl returns that data and consults      *)
(* nothing but the cache, leaving the cache as it is; a call at a time     *)
(* >= t + cache_ttl resolves the sources again and, when it returns,       *)
(* stores what it returns with the current time; a call that fails leaves  *)
(* the cache unchanged.  (A step that keeps the time is a get_all call.)   *)
(***************************************************************************)
C12_Fresh == Truthy(cache.data) /\ now < cache.ts + CacheTtl
C12_Expired == Truthy(cache.data) /\ now >= cache.ts + CacheTtl

C12_CacheTtl ==
    [][now' = now =>
        /\ lastCall'.op = "get_all" /\ lastCall'.at = now
        /\ C12_Fresh =>
              /\ lastCall'.result = Value(cache.data)
              /\ lastCall'.consulted = <<"cache">>
              /\ cache' = cache
        /\ C12_Expired =>
              /\ Len(lastCall'.consulted) > 1
              /\ lastCall'.result.kind = "value" =>
                    cache' = [data |-> lastCall'.result.data, ts |-> now]
        /\ lastCall'.result.kind = "raised" => cache' = cache]_vars

\* A call strictly after the fill and before its expiry was served from the
\* cache.
C12_Witness ==
    /\ lastCall.op = "get_all"
    /\ lastCall.consulted = <<"cache">>
    /\ Truthy(cache.data)
    /\ lastCall.at > cache.ts
    /\ lastCall.at < cache.ts + CacheTtl

====
